---- MODULE Spec2Model ----
(***************************************************************************)
(* Plugin resolution of @superapp/backend: src/src/plugins/resolve.ts.     *)
(*                                                                         *)
(* resolvePlugins(plugins) walks the descriptor list once and merges each  *)
(* descriptor into an accumulator; one step of the model is one iteration  *)
(* of the for-loop (resolve.ts:84-168), the last step is the return        *)
(* (resolve.ts:170).  A throw ends the call with the error as outcome.     *)
(*                                                                         *)
(* JavaScript values are modelled as follows.                              *)
(*  - A descriptor is a function whose DOMAIN is the set of properties it  *)
(*    has; every contribution is an object, an array or a callback         *)
(*    (types.ts), hence truthy, so `if (plugin.f)` is `f \in DOMAIN p`.    *)
(*  - A Record<string, X> of a descriptor is the sequence of its own       *)
(*    <<key, value>> entries in the order Object.entries yields them.      *)
(*  - A Record<string, X> of the accumulator is the function from its own  *)
(*    keys to their values.  It is created by the literal {} and so        *)
(*    inherits the members of Object.prototype: reading such a key gives   *)
(*    a truthy value although the key is not an own key.                   *)
(*  - `T | undefined` is a sequence of length at most one.                 *)
(***************************************************************************)
EXTENDS Integers, Sequences, FiniteSets, TLC

VARIABLES plugins, resolved, authSource, pos, outcome, previous, other

vars == <<plugins, resolved, authSource, pos, outcome, previous, other>>

----------------------------------------------------------------------------
(* Bounds of the input space.                                              *)

\* longest descriptor sequence passed to resolvePlugins
MaxPlugins == 3
\* largest number of contributed entries in one descriptor sequence
MaxContrib == 3

----------------------------------------------------------------------------
(* Values.                                                                 *)

Undefined == <<>>

Some(v) == <<v>>

EmptyObject == [k \in {} |-> k]

\* Members every object literal inherits from Object.prototype; one name
\* stands for all of them (constructor, toString, valueOf, __proto__, ...).
ProtoKeys == {"constructor"}

\* `if (plugin.f)`: the property is present (its value is never falsy).
Has(p, f) == f \in DOMAIN p

\* `resolved.f[key]` read for its truthiness: an own key or an inherited one.
Truthy(obj, key) == key \in DOMAIN obj \/ key \in ProtoKeys

\* the own keys of a descriptor's mapping, given as its entries
OwnKeys(entries) == {entries[n][1] : n \in 1..Len(entries)}

\* `key in obj` for a descriptor's mapping: own or inherited
KeyIn(entries, key) == key \in OwnKeys(entries) \/ key \in ProtoKeys

\* `xs.includes(x)`
Includes(xs, x) == \E n \in 1..Len(xs) : xs[n] = x

----------------------------------------------------------------------------
(* Errors.                                                                 *)

NoError == [type |-> "none"]

\* Mutant of PluginConflictError: the text names the two plugins in the
\* wrong order.
PluginConflictErrorTextSwapped(kind, key, pluginA, pluginB) ==
    [type |-> "PluginConflictError", kind |-> kind, key |-> key,
     ownerA |-> pluginA, ownerB |-> pluginB,
     message |->
         "Plugin conflict: " \o kind \o " \"" \o key
             \o "\" is defined by both \"" \o pluginB
             \o "\" and \"" \o pluginA \o "\". "
             \o "Each " \o kind \o " must be provided by exactly one plugin."]

\* resolve.ts:51-59: the arguments of the constructor and the text it
\* passes to Error, the two template literals joined by `+`
PluginConflictError(kind, key, pluginA, pluginB) ==
    [type |-> "PluginConflictError", kind |-> kind, key |-> key,
     ownerA |-> pluginA, ownerB |-> pluginB,
     message |->
         "Plugin conflict: " \o kind \o " \"" \o key
             \o "\" is defined by both \"" \o pluginA
             \o "\" and \"" \o pluginB \o "\". "
             \o "Each " \o kind \o " must be provided by exactly one plugin."]

\* `resolved.roles[role].includes is not a function`
TypeError == [type |-> "TypeError"]

----------------------------------------------------------------------------
(* findOwner                                                               *)

\* Mutant of FindOwnerFrom: a scan that finds nothing names the current
\* descriptor.
RECURSIVE FindOwnerFromSelf(_, _, _, _, _)
FindOwnerFromSelf(ps, n, field, key, currentName) ==
    IF n > Len(ps) THEN currentName
    ELSE IF ps[n].name = currentName THEN currentName
    ELSE IF Has(ps[n], field) /\ KeyIn(ps[n][field], key) THEN ps[n].name
    ELSE FindOwnerFromSelf(ps, n + 1, field, key, currentName)

RECURSIVE FindOwnerFrom(_, _, _, _, _)
FindOwnerFrom(ps, n, field, key, currentName) ==
    IF n > Len(ps) THEN "engine config"
    ELSE IF ps[n].name = currentName THEN "engine config"
    ELSE IF Has(ps[n], field) /\ KeyIn(ps[n][field], key) THEN ps[n].name
    ELSE FindOwnerFrom(ps, n + 1, field, key, currentName)

\* Mutant of findOwner: the scan does not stop at the current name.
RECURSIVE findOwnerNoStop(_, _, _, _)
findOwnerNoStop(ps, field, key, currentName) ==
    IF ps = <<>> THEN "engine config"
    ELSE IF Has(Head(ps), field) /\ KeyIn(Head(ps)[field], key)
    THEN Head(ps).name
    ELSE findOwnerNoStop(Tail(ps), field, key, currentName)

\* resolve.ts:184-188: the number of descriptors the loop of findOwner
\* looks at, from descriptor n on, until it breaks, returns or runs out
RECURSIVE FindOwnerVisits(_, _, _, _, _)
FindOwnerVisits(ps, n, field, key, currentName) ==
    IF n > Len(ps) THEN 0
    ELSE IF ps[n].name = currentName THEN 1
    ELSE IF Has(ps[n], field) /\ KeyIn(ps[n][field], key) THEN 1
    ELSE 1 + FindOwnerVisits(ps, n + 1, field, key, currentName)

findOwner(ps, field, key, currentName) ==
    FindOwnerFrom(ps, 1, field, key, currentName)

----------------------------------------------------------------------------
(* The accumulator and the sections of the loop body.  A section takes the *)
(* running state st = [resolved, authSource, error] of the call and the    *)
(* descriptor p; a throw is recorded in st.error and ends the call.        *)

EmptyResolved ==
    [integrations |-> <<>>,
     auth         |-> Undefined,
     permissions  |-> EmptyObject,
     roles        |-> EmptyObject,
     actions      |-> EmptyObject,
     middleware   |-> <<>>,
     routes       |-> EmptyObject,
     hooks        |-> [onInit |-> <<>>, onRequest |-> <<>>,
                       onError |-> <<>>, onShutdown |-> <<>>]]

Threw(st) == st.error # NoError

Throw(st, err) == [st EXCEPT !.error = err]

\* `authSource!` as it is interpolated into the message
NameOf(source) == IF source = Undefined THEN "undefined" ELSE source[1]

\* resolve.ts:86-88
MergeIntegrations(st, p) ==
    IF Has(p, "integrations")
    THEN [st EXCEPT !.resolved.integrations = @ \o p.integrations]
    ELSE st

\* Mutant of MergeAuth: the two owners are passed in the wrong order.
MergeAuthOwnersSwapped(st, p) ==
    IF Has(p, "auth")
    THEN IF st.resolved.auth # Undefined
         THEN Throw(st, PluginConflictError("auth", "auth",
                                            p.name, NameOf(st.authSource)))
         ELSE [st EXCEPT !.resolved.auth = Some(p.auth),
                         !.authSource = Some(p.name)]
    ELSE st

\* Mutant of MergeAuth: a descriptor named like the owner of auth may
\* supply auth again.
MergeAuthSameNameAllowed(st, p) ==
    IF Has(p, "auth")
    THEN IF st.resolved.auth # Undefined /\ NameOf(st.authSource) # p.name
         THEN Throw(st, PluginConflictError("auth", "auth",
                                            NameOf(st.authSource), p.name))
         ELSE [st EXCEPT !.resolved.auth = Some(p.auth),
                         !.authSource = Some(p.name)]
    ELSE st

\* Mutant of MergeAuth: the name remembered is that of the descriptor seen
\* last, with or without auth.
MergeAuthRememberingLast(st, p) ==
    IF Has(p, "auth")
    THEN IF st.resolved.auth # Undefined
         THEN Throw(st, PluginConflictError("auth", "auth",
                                            NameOf(st.authSource), p.name))
         ELSE [st EXCEPT !.resolved.auth = Some(p.auth),
                         !.authSource = Some(p.name)]
    ELSE [st EXCEPT !.authSource = Some(p.name)]

\* Mutant of MergeAuth: what is remembered as the owner is the provider.
MergeAuthRememberingProvider(st, p) ==
    IF Has(p, "auth")
    THEN IF st.resolved.auth # Undefined
         THEN Throw(st, PluginConflictError("auth", "auth",
                                            NameOf(st.authSource), p.name))
         ELSE [st EXCEPT !.resolved.auth = Some(p.auth),
                         !.authSource = Some(p.auth)]
    ELSE st

\* Mutant of MergeAuth: what is stored as auth is the plugin's name.
MergeAuthStoringName(st, p) ==
    IF Has(p, "auth")
    THEN IF st.resolved.auth # Undefined
         THEN Throw(st, PluginConflictError("auth", "auth",
                                            NameOf(st.authSource), p.name))
         ELSE [st EXCEPT !.resolved.auth = Some(p.name),
                         !.authSource = Some(p.name)]
    ELSE st

\* resolve.ts:91-97
MergeAuth(st, p) ==
    IF Has(p, "auth")
    THEN IF st.resolved.auth # Undefined
         THEN Throw(st, PluginConflictError("auth", "auth",
                                            NameOf(st.authSource), p.name))
         ELSE [st EXCEPT !.resolved.auth = Some(p.auth),
                         !.authSource = Some(p.name)]
    ELSE st

\* Mutant of MergeEntries: an insertion replaces the mapping instead of
\* extending it.
RECURSIVE MergeEntriesReplacing(_, _, _, _, _, _)
MergeEntriesReplacing(st, ps, p, field, kind, n) ==
    IF n > Len(p[field]) THEN st
    ELSE LET key   == p[field][n][1]
             value == p[field][n][2]
         IN  IF Truthy(st.resolved[field], key)
             THEN Throw(st, PluginConflictError(
                                kind, key,
                                findOwner(ps, field, key, p.name), p.name))
             ELSE MergeEntriesReplacing(
                      [st EXCEPT !.resolved[field] = (key :> value)],
                      ps, p, field, kind, n + 1)

\* Mutant of MergeEntries: the three mappings share one namespace of keys.
RECURSIVE MergeEntriesOneNamespace(_, _, _, _, _, _)
MergeEntriesOneNamespace(st, ps, p, field, kind, n) ==
    IF n > Len(p[field]) THEN st
    ELSE LET key   == p[field][n][1]
             value == p[field][n][2]
         IN  IF \E g \in {"permissions", "actions", "routes"} :
                   Truthy(st.resolved[g], key)
             THEN Throw(st, PluginConflictError(
                                kind, key,
                                findOwner(ps, field, key, p.name), p.name))
             ELSE MergeEntriesOneNamespace(
                      [st EXCEPT !.resolved[field] = (key :> value) @@ @],
                      ps, p, field, kind, n + 1)

\* The loop over Object.entries(plugin[field]) shared by the three exclusive
\* mappings: throw on a key the accumulator already answers for, else insert.
RECURSIVE MergeEntries(_, _, _, _, _, _)
MergeEntries(st, ps, p, field, kind, n) ==
    IF n > Len(p[field]) THEN st
    ELSE LET key   == p[field][n][1]
             value == p[field][n][2]
         IN  IF Truthy(st.resolved[field], key)
             THEN Throw(st, PluginConflictError(
                                kind, key,
                                findOwner(ps, field, key, p.name), p.name))
             ELSE MergeEntries(
                      [st EXCEPT !.resolved[field] = (key :> value) @@ @],
                      ps, p, field, kind, n + 1)

\* resolve.ts:100-112
MergePermissions(st, ps, p) ==
    IF Has(p, "permissions")
    THEN MergeEntries(st, ps, p, "permissions", "permission", 1)
    ELSE st

\* resolve.ts:120-124: the inner loop over one role's slugs.  When the role
\* name is inherited and not an own key, `resolved.roles[role]` is not an
\* array and the first call of `.includes` throws a TypeError.
RECURSIVE MergeRolePerms(_, _, _, _)
MergeRolePerms(st, role, perms, n) ==
    IF n > Len(perms) THEN st
    ELSE IF role \notin DOMAIN st.resolved.roles
    THEN Throw(st, TypeError)
    ELSE IF ~Includes(st.resolved.roles[role], perms[n])
    THEN MergeRolePerms(
             [st EXCEPT !.resolved.roles[role] = Append(@, perms[n])],
             role, perms, n + 1)
    ELSE MergeRolePerms(st, role, perms, n + 1)

\* Mutant of MergeRoleEntries: a role that exists already keeps the slugs
\* it has, the later descriptor's list is not merged.
RECURSIVE MergeRoleEntriesFirstWins(_, _, _)
MergeRoleEntriesFirstWins(st, p, n) ==
    IF n > Len(p.roles) THEN st
    ELSE LET role  == p.roles[n][1]
             perms == p.roles[n][2]
             s2    == IF ~Truthy(st.resolved.roles, role)
                      THEN MergeRolePerms(
                               [st EXCEPT !.resolved.roles =
                                   (role :> <<>>) @@ @], role, perms, 1)
                      ELSE st
         IN  IF Threw(s2) THEN s2 ELSE MergeRoleEntriesFirstWins(s2, p, n + 1)

\* resolve.ts:116-125: the loop over Object.entries(plugin.roles)
RECURSIVE MergeRoleEntries(_, _, _)
MergeRoleEntries(st, p, n) ==
    IF n > Len(p.roles) THEN st
    ELSE LET role  == p.roles[n][1]
             perms == p.roles[n][2]
             s1    == IF ~Truthy(st.resolved.roles, role)
                      THEN [st EXCEPT !.resolved.roles = (role :> <<>>) @@ @]
                      ELSE st
             s2    == MergeRolePerms(s1, role, perms, 1)
         IN  IF Threw(s2) THEN s2 ELSE MergeRoleEntries(s2, p, n + 1)

\* resolve.ts:115-126
MergeRoles(st, p) ==
    IF Has(p, "roles") THEN MergeRoleEntries(st, p, 1) ELSE st

\* resolve.ts:129-141
MergeActions(st, ps, p) ==
    IF Has(p, "actions")
    THEN MergeEntries(st, ps, p, "actions", "action", 1)
    ELSE st

\* Mutant of MergeMiddleware: the middleware is pushed onto the list of the
\* section the code was copied from.
MergeMiddlewareIntoIntegrations(st, p) ==
    IF Has(p, "middleware")
    THEN [st EXCEPT !.resolved.integrations = @ \o p.middleware]
    ELSE st

\* resolve.ts:144-146
MergeMiddleware(st, p) ==
    IF Has(p, "middleware")
    THEN [st EXCEPT !.resolved.middleware = @ \o p.middleware]
    ELSE st

\* Mutant of MergeRoutes: a route is stored without the check, the later
\* handler replacing the earlier one.
RECURSIVE StoreRoutes(_, _, _)
StoreRoutes(st, p, n) ==
    IF n > Len(p.routes) THEN st
    ELSE StoreRoutes(
             [st EXCEPT !.resolved.routes =
                 (p.routes[n][1] :> p.routes[n][2]) @@ @], p, n + 1)

MergeRoutesUnchecked(st, ps, p) ==
    IF Has(p, "routes") THEN StoreRoutes(st, p, 1) ELSE st

\* resolve.ts:149-161
MergeRoutes(st, ps, p) ==
    IF Has(p, "routes")
    THEN MergeEntries(st, ps, p, "routes", "route", 1)
    ELSE st

HookNames == {"onInit", "onRequest", "onError", "onShutdown"}

\* Mutant of MergeHooks: a callback is put in front of the list.
MergeHooksPrepending(st, p) ==
    [st EXCEPT !.resolved.hooks =
        [h \in HookNames |-> IF Has(p, h) THEN <<p[h]>> \o @[h] ELSE @[h]]]

\* resolve.ts:164-167
MergeHooks(st, p) ==
    [st EXCEPT !.resolved.hooks =
        [h \in HookNames |-> IF Has(p, h) THEN Append(@[h], p[h]) ELSE @[h]]]

\* One iteration of `for (const plugin of plugins)`, resolve.ts:84-168: the
\* sections in source order, none of which runs after a throw.
ProcessPlugin(st, ps, p) ==
    LET s1 == MergeIntegrations(st, p)
        s2 == MergeAuth(s1, p)
        s3 == IF Threw(s2) THEN s2 ELSE MergePermissions(s2, ps, p)
        s4 == IF Threw(s3) THEN s3 ELSE MergeRoles(s3, p)
        s5 == IF Threw(s4) THEN s4 ELSE MergeActions(s4, ps, p)
        s6 == IF Threw(s5) THEN s5 ELSE MergeMiddleware(s5, p)
        s7 == IF Threw(s6) THEN s6 ELSE MergeRoutes(s6, ps, p)
    IN  IF Threw(s7) THEN s7 ELSE MergeHooks(s7, p)

\* the sections of the loop body by the field they merge
Sections == {"integrations", "auth", "permissions", "roles", "actions",
             "middleware", "routes", "hooks"}

Section(st, ps, p, f) ==
    CASE f = "integrations" -> MergeIntegrations(st, p)
      [] f = "auth"         -> MergeAuth(st, p)
      [] f = "permissions"  -> MergePermissions(st, ps, p)
      [] f = "roles"        -> MergeRoles(st, p)
      [] f = "actions"      -> MergeActions(st, ps, p)
      [] f = "middleware"   -> MergeMiddleware(st, p)
      [] f = "routes"       -> MergeRoutes(st, ps, p)
      [] f = "hooks"        -> MergeHooks(st, p)

\* One iteration with the sections taken in the given order instead of the
\* source's, none of which runs after a throw.
RECURSIVE ProcessPluginInOrder(_, _, _, _, _)
ProcessPluginInOrder(st, ps, p, order, n) ==
    IF n > Len(order) \/ Threw(st) THEN st
    ELSE ProcessPluginInOrder(Section(st, ps, p, order[n]), ps, p, order, n + 1)

----------------------------------------------------------------------------
(* The input space: descriptor sequences `plugins: Plugin[]` (types.ts,    *)
(* interface Plugin).  A class of inputs is given by the fields its        *)
(* descriptors may have and the alphabets of their entries; its members    *)
(* are enumerated by weight, the number of contributed entries.            *)

Names == {"A", "B"}

SeqFields == {"integrations", "middleware"}

MapFields == {"permissions", "actions", "routes"}

FieldOrder == <<"integrations", "auth", "permissions", "roles", "actions",
                "middleware", "routes", "onInit", "onRequest", "onError",
                "onShutdown">>

SeqsOf(S, n) == [1..n -> S]

\* a present but empty array or mapping counts as one contribution
EmptyOpt(c, f, w) == IF w = 1 /\ c.empties THEN {f :> <<>>} ELSE {}

\* mappings with w entries under pairwise distinct keys
MapOpts(c, w) ==
    {[n \in 1..w |-> <<ks[n], vs[n]>>] :
        ks \in {s \in SeqsOf(c.keys, w) :
                  \A a, b \in 1..w : a # b => s[a] # s[b]},
        vs \in SeqsOf(c.vals, w)}

\* one role with w slugs (or none, counted as one contribution)
RoleEntry(c, w) ==
    {<<r, s>> : r \in c.roles,
                s \in SeqsOf(c.slugs, w) \cup
                      (IF w = 1 /\ c.empties THEN {<<>>} ELSE {})}

\* role mappings of weight w, of one or two roles
RoleOpts(c, w) ==
    {<<e>> : e \in RoleEntry(c, w)} \cup
    UNION {{<<e1, e2>> : e1 \in RoleEntry(c, a),
                         e2 \in RoleEntry(c, w - a)} :
           a \in 1..(w - 1)}

\* the ways field f can be given with weight w: absent, or f :> value
FieldOpts(c, f, w) ==
    IF w = 0 THEN {EmptyObject}
    ELSE IF f \notin c.fields THEN {}
    ELSE IF f \in SeqFields
    THEN {f :> s : s \in SeqsOf(c.items, w)} \cup EmptyOpt(c, f, w)
    ELSE IF f \in MapFields
    THEN {f :> m : m \in MapOpts(c, w)} \cup EmptyOpt(c, f, w)
    ELSE IF f = "roles"
    THEN {f :> m : m \in {r \in RoleOpts(c, w) :
                            \A a, b \in 1..Len(r) : a # b => r[a][1] # r[b][1]}}
         \cup EmptyOpt(c, f, w)
    ELSE IF w = 1
    THEN {f :> v : v \in (IF f = "auth" THEN c.auths ELSE c.hooks)}
    ELSE {}

\* the contributions of one descriptor over fields n.., of weight w
RECURSIVE Contribs(_, _, _)
Contribs(c, n, w) ==
    IF n > Len(FieldOrder) THEN (IF w = 0 THEN {EmptyObject} ELSE {})
    ELSE UNION {{o @@ r : o \in FieldOpts(c, FieldOrder[n], wf),
                          r \in Contribs(c, n + 1, w - wf)} : wf \in 0..w}

Descriptors(c, w) ==
    {("name" :> nm) @@ d : nm \in c.names, d \in Contribs(c, 1, w)}

\* Input classes.  `extra` widens the weight bound of a small class.

\* the exclusive fields under both names, with an inherited key
ExclusiveClass ==
    [fields |-> {"auth", "permissions", "actions", "routes"},
     names |-> Names, keys |-> {"k1", "constructor"}, vals |-> {"v1"},
     items |-> {}, roles |-> {}, slugs |-> {},
     auths |-> {"au1"}, hooks |-> {}, empties |-> FALSE, extra |-> 0]

\* auth beside one permission slug, one contribution more
AuthClass ==
    [fields |-> {"auth", "permissions"},
     names |-> Names, keys |-> {"k1"}, vals |-> {"v1"},
     items |-> {}, roles |-> {}, slugs |-> {},
     auths |-> {"au1"}, hooks |-> {}, empties |-> FALSE, extra |-> 1]

\* the concatenated fields beside one permission slug
ListClass ==
    [fields |-> {"integrations", "middleware", "permissions"},
     names |-> {"A"}, keys |-> {"k1"}, vals |-> {"v1"},
     items |-> {"i1", "i2"}, roles |-> {}, slugs |-> {},
     auths |-> {}, hooks |-> {}, empties |-> FALSE, extra |-> 0]

\* the four lifecycle hooks
HookClass ==
    [fields |-> HookNames,
     names |-> {"A"}, keys |-> {}, vals |-> {},
     items |-> {}, roles |-> {}, slugs |-> {},
     auths |-> {}, hooks |-> {"f1", "f2"}, empties |-> FALSE, extra |-> 0]

\* roles, one of them named like an inherited member, with empty slug lists
\* and empty mappings, beside one permission slug
RoleClass ==
    [fields |-> {"roles", "permissions"},
     names |-> {"A"}, keys |-> {"k1"}, vals |-> {"v1"},
     items |-> {}, roles |-> {"r1", "constructor"}, slugs |-> {"x", "y"},
     auths |-> {}, hooks |-> {}, empties |-> TRUE, extra |-> 0]

\* mappings under two keys and two values, and two auth values
ValueClass ==
    [fields |-> {"auth", "permissions", "routes"},
     names |-> {"A"}, keys |-> {"k1", "k2"}, vals |-> {"v1", "v2"},
     items |-> {}, roles |-> {}, slugs |-> {},
     auths |-> {"au1", "au2"}, hooks |-> {}, empties |-> FALSE, extra |-> 0]

Classes ==
    {ExclusiveClass, AuthClass, ListClass, HookClass, RoleClass, ValueClass}

\* the exclusive fields under one descriptor name, for the properties that
\* rename the descriptors themselves
ExclusiveClassOneName == [ExclusiveClass EXCEPT !.names = {"A"}]

\* auth beside one permission slug under one descriptor name, for two
\* invocations side by side
AuthClassOneName == [AuthClass EXCEPT !.names = {"A"}]

\* the exclusive fields under one descriptor name with two contributions
\* more, for descriptors that repeat several contributions at once
CheckOrderClass == [ExclusiveClassOneName EXCEPT !.extra = 2]

\* the exclusive fields with the literal auth as the key, one contribution
\* more
NamespaceClass == [ExclusiveClass EXCEPT !.keys = {"auth"}, !.extra = 1]

DescriptorTable ==
    [c \in Classes \cup {ExclusiveClassOneName, AuthClassOneName,
                         CheckOrderClass, NamespaceClass} |->
        [w \in 0..(MaxContrib + c.extra) |-> Descriptors(c, w)]]

----------------------------------------------------------------------------
(* The call.                                                               *)

Pending == [type |-> "pending"]

\* what the caller has of an earlier call: nothing, before the first
NoCall == [type |-> "none"]

\* no second invocation of resolvePlugins is under way
NoInvocation == [type |-> "none"]

\* the frame of an invocation at its entry, resolve.ts:65-82
Entered(ps) ==
    [plugins |-> ps, resolved |-> EmptyResolved, authSource |-> Undefined,
     pos |-> 0, outcome |-> Pending]

\* Mutant of Returned: the fields that are empty are left out of the
\* configuration.
ReturnedCompact(value) ==
    [type |-> "returned",
     value |-> [f \in {g \in DOMAIN value : value[g] # <<>>} |-> value[f]]]

Returned(value) == [type |-> "returned", value |-> value]

Thrown(err) == [type |-> "thrown", error |-> err]

\* Mutant of Outcome: the error carries the accumulator as merged so far.
OutcomeWithPartial(st) ==
    IF Threw(st)
    THEN Thrown(("partial" :> st.resolved) @@ st.error)
    ELSE Pending

\* what the caller has of the call after an iteration: a throw propagates to
\* the caller (no try/catch in resolvePlugins), else the loop goes on
Outcome(st) == IF Threw(st) THEN Thrown(st.error) ELSE Pending

\* the caller passes n descriptors of class c with at most w contributions
RECURSIVE Call(_, _, _, _)
Call(c, prefix, n, w) ==
    IF n = 0 THEN plugins = prefix
    ELSE \E wd \in 0..w : \E d \in DescriptorTable[c][wd] :
            Call(c, Append(prefix, d), n - 1, w - wd)

\* resolve.ts:65-82
Init ==
    /\ \E c \in Classes, n \in 0..MaxPlugins : Call(c, <<>>, n, MaxContrib + c.extra)
    /\ resolved = EmptyResolved
    /\ authSource = Undefined
    /\ pos = 0
    /\ outcome = Pending
    /\ previous = NoCall
    /\ other = NoInvocation

\* Mutant of LoopBody: the accumulator's integrations array is the array of
\* the first descriptor that has one, so what is pushed shows in the input.
LoopBodySharingArray ==
    /\ outcome = Pending
    /\ pos < Len(plugins)
    /\ LET st == ProcessPlugin([resolved |-> resolved, authSource |-> authSource,
                                error |-> NoError], plugins, plugins[pos + 1])
           have == {n \in 1..(pos + 1) : Has(plugins[n], "integrations")}
       IN  /\ resolved' = st.resolved
           /\ authSource' = st.authSource
           /\ outcome' = Outcome(st)
           /\ plugins' =
                 IF have = {} THEN plugins
                 ELSE [plugins EXCEPT
                         ![CHOOSE n \in have : \A m \in have : n <= m]
                             .integrations = st.resolved.integrations]
    /\ pos' = pos + 1
    /\ UNCHANGED <<previous, other>>

\* Mutant of LoopBody: a descriptor that has nothing but its name is
\* skipped without the loop moving on.
LoopBodyNotAdvancing ==
    /\ outcome = Pending
    /\ pos < Len(plugins)
    /\ LET st == ProcessPlugin([resolved |-> resolved, authSource |-> authSource,
                                error |-> NoError], plugins, plugins[pos + 1])
       IN  /\ resolved' = st.resolved
           /\ authSource' = st.authSource
           /\ outcome' = Outcome(st)
    /\ pos' = IF DOMAIN plugins[pos + 1] = {"name"} THEN pos ELSE pos + 1
    /\ UNCHANGED <<plugins, previous, other>>

\* resolve.ts:84-168: the next descriptor is merged, or the call throws
LoopBody ==
    /\ outcome = Pending
    /\ pos < Len(plugins)
    /\ LET st == ProcessPlugin([resolved |-> resolved, authSource |-> authSource,
                                error |-> NoError], plugins, plugins[pos + 1])
       IN  /\ resolved' = st.resolved
           /\ authSource' = st.authSource
           /\ outcome' = Outcome(st)
    /\ pos' = pos + 1
    /\ UNCHANGED <<plugins, previous, other>>

\* resolve.ts:170
Return ==
    /\ outcome = Pending
    /\ pos = Len(plugins)
    /\ outcome' = Returned(resolved)
    /\ UNCHANGED <<plugins, resolved, authSource, pos, previous, other>>

Next == LoopBody \/ Return

Spec == Init /\ [][Next]_vars

\* resolve.ts:84-170 as a function of the array: the loop from descriptor n
\* on, giving what the caller gets and the descriptor the call ended at
RECURSIVE RunFrom(_, _, _)
RunFrom(st, ps, n) ==
    IF n > Len(ps)
    THEN [outcome |-> Returned(st.resolved), pos |-> Len(ps)]
    ELSE LET s == ProcessPlugin(st, ps, ps[n])
         IN  IF Threw(s) THEN [outcome |-> Thrown(s.error), pos |-> n]
             ELSE RunFrom(s, ps, n + 1)

\* resolve.ts:65-171: a call of resolvePlugins on the array ps
resolvePlugins(ps) ==
    RunFrom([resolved |-> EmptyResolved, authSource |-> Undefined,
             error |-> NoError], ps, 1)

\* the call with every iteration taking the sections in the given order
RECURSIVE RunInOrderFrom(_, _, _, _)
RunInOrderFrom(st, ps, n, order) ==
    IF n > Len(ps)
    THEN [outcome |-> Returned(st.resolved), pos |-> Len(ps)]
    ELSE LET s == ProcessPluginInOrder(st, ps, ps[n], order, 1)
         IN  IF Threw(s) THEN [outcome |-> Thrown(s.error), pos |-> n]
             ELSE RunInOrderFrom(s, ps, n + 1, order)

resolvePluginsInOrder(ps, order) ==
    RunInOrderFrom([resolved |-> EmptyResolved, authSource |-> Undefined,
                    error |-> NoError], ps, 1, order)

\* Mutant of CallAgain: the accumulator outlives the call, as a variable of
\* the module would.
CallAgainKeepingAccumulator ==
    /\ outcome # Pending
    /\ previous = NoCall
    /\ previous' = outcome
    /\ pos' = 0
    /\ outcome' = Pending
    /\ UNCHANGED <<plugins, resolved, authSource, other>>

\* resolve.ts:65-82: the caller, having the outcome of a call, calls
\* resolvePlugins once more with the same array; the accumulator and
\* authSource are locals of the call and are made anew
CallAgain ==
    /\ outcome # Pending
    /\ previous = NoCall
    /\ previous' = outcome
    /\ resolved' = EmptyResolved
    /\ authSource' = Undefined
    /\ pos' = 0
    /\ outcome' = Pending
    /\ UNCHANGED <<plugins, other>>

NextTwice == Next \/ CallAgain

\* the caller passes a sequence of one of the classes cs
Inputs(cs) ==
    /\ \E c \in cs, n \in 0..MaxPlugins : Call(c, <<>>, n, MaxContrib + c.extra)
    /\ resolved = EmptyResolved
    /\ authSource = Undefined
    /\ pos = 0
    /\ outcome = Pending
    /\ previous = NoCall
    /\ other = NoInvocation

\* two calls on the same input, one after the other
InitTwice == Inputs(Classes \ {ExclusiveClass})

SpecTwice == InitTwice /\ [][NextTwice]_vars

\* the call on inputs whose descriptors are to be exchanged
InitSwaps == Inputs(Classes \ {ExclusiveClass})

SpecSwaps == InitSwaps /\ [][Next]_vars

\* the call on inputs whose descriptors are to be renamed
InitNames == Inputs({ExclusiveClassOneName, AuthClass, RoleClass})

SpecNames == InitNames /\ [][Next]_vars

\* the call runs to completion: no await, no callback of the caller's is
\* invoked, so a step that can be taken is taken
InitFair == Inputs({AuthClass})

SpecFair == InitFair /\ [][Next]_vars /\ WF_vars(Next)

\* the call on inputs whose descriptors have several fields
InitOrders == Inputs({ExclusiveClassOneName, AuthClass, ListClass, RoleClass})

SpecOrders == InitOrders /\ [][Next]_vars

\* the call on inputs whose descriptors have auth beside mappings
InitAuth == Inputs({AuthClass, ValueClass})

SpecAuth == InitAuth /\ [][Next]_vars

\* the call on inputs whose descriptors repeat several contributions
InitCheckOrder == Inputs({CheckOrderClass})

SpecCheckOrder == InitCheckOrder /\ [][Next]_vars

\* the call on inputs that use one string in several namespaces
InitNamespaces == Inputs({NamespaceClass})

SpecNamespaces == InitNamespaces /\ [][Next]_vars

\* a second invocation is entered with n descriptors of class c with at
\* most w contributions
RECURSIVE CallOther(_, _, _, _)
CallOther(c, prefix, n, w) ==
    IF n = 0 THEN other = Entered(prefix)
    ELSE \E wd \in 0..w : \E d \in DescriptorTable[c][wd] :
            CallOther(c, Append(prefix, d), n - 1, w - wd)

\* Mutant of OtherLoopBody: the accumulator and the remembered auth owner
\* are variables of the module, which both invocations read and write.
OtherLoopBodySharedAccumulator ==
    /\ other # NoInvocation
    /\ other.outcome = Pending
    /\ other.pos < Len(other.plugins)
    /\ LET st == ProcessPlugin([resolved |-> resolved, authSource |-> authSource,
                                error |-> NoError],
                               other.plugins, other.plugins[other.pos + 1])
       IN  /\ resolved' = st.resolved
           /\ authSource' = st.authSource
           /\ other' = [other EXCEPT !.resolved = st.resolved,
                                     !.authSource = st.authSource,
                                     !.pos = @ + 1,
                                     !.outcome = Outcome(st)]
    /\ UNCHANGED <<plugins, pos, outcome, previous>>

\* resolve.ts:84-168 in the second invocation: its next descriptor is merged
\* into its own accumulator, or it throws
OtherLoopBody ==
    /\ other # NoInvocation
    /\ other.outcome = Pending
    /\ other.pos < Len(other.plugins)
    /\ LET st == ProcessPlugin([resolved |-> other.resolved,
                                authSource |-> other.authSource,
                                error |-> NoError],
                               other.plugins, other.plugins[other.pos + 1])
       IN  other' = [other EXCEPT !.resolved = st.resolved,
                                  !.authSource = st.authSource,
                                  !.pos = @ + 1,
                                  !.outcome = Outcome(st)]
    /\ UNCHANGED <<plugins, resolved, authSource, pos, outcome, previous>>

\* resolve.ts:170 in the second invocation
OtherReturn ==
    /\ other # NoInvocation
    /\ other.outcome = Pending
    /\ other.pos = Len(other.plugins)
    /\ other' = [other EXCEPT !.outcome = Returned(other.resolved)]
    /\ UNCHANGED <<plugins, resolved, authSource, pos, outcome, previous>>

NextInterleaved == LoopBody \/ Return \/ OtherLoopBody \/ OtherReturn

\* two invocations on two inputs, their iterations interleaved in any way
InitInterleaved ==
    /\ \E n \in 0..MaxPlugins :
          Call(AuthClassOneName, <<>>, n, MaxContrib + AuthClassOneName.extra)
    /\ \E n \in 0..MaxPlugins :
          CallOther(AuthClassOneName, <<>>, n,
                    MaxContrib + AuthClassOneName.extra)
    /\ resolved = EmptyResolved
    /\ authSource = Undefined
    /\ pos = 0
    /\ outcome = Pending
    /\ previous = NoCall

SpecInterleaved == InitInterleaved /\ [][NextInterleaved]_vars

\* Mutant of definePlugin: a descriptor without permissions is given an
\* empty mapping.
definePluginWithDefaults(plugin) == plugin @@ [permissions |-> <<>>]

\* definePlugin.ts:15-17
definePlugin(plugin) == plugin

\* a plugin author passes one of the descriptors to definePlugin; pos is the
\* descriptor passed and outcome what the author gets
DefinePluginCall ==
    /\ outcome = Pending
    /\ \E n \in 1..Len(plugins) :
          /\ pos' = n
          /\ outcome' = Returned(definePlugin(plugins[n]))
    /\ UNCHANGED <<plugins, resolved, authSource, previous, other>>

InitDefine == Inputs(Classes \ {ExclusiveClass})

SpecDefine == InitDefine /\ [][DefinePluginCall]_vars

----------------------------------------------------------------------------
(* Vocabulary of the properties: the input and the caller's outcome.       *)

Positions == 1..Len(plugins)

Done == outcome # Pending

Succeeded == outcome.type = "returned"

Failed == outcome.type = "thrown"

Conflicted == Failed /\ outcome.error.type = "PluginConflictError"

KindOf(f) == CASE f = "permissions" -> "permission"
               [] f = "actions"     -> "action"
               [] f = "routes"      -> "route"

MapKinds == {KindOf(f) : f \in MapFields}

FieldOf(kind) == CHOOSE f \in MapFields : KindOf(f) = kind

Supplies(n, f) == f \in DOMAIN plugins[n]

Suppliers(f) == {n \in Positions : Supplies(n, f)}

\* descriptor n has key k among the entries of its mapping f
Contributes(n, f, k) ==
    Supplies(n, f) /\ \E m \in 1..Len(plugins[n][f]) : plugins[n][f][m][1] = k

Contributors(f, k) == {n \in Positions : Contributes(n, f, k)}

KeysOf(f) ==
    UNION {{plugins[n][f][m][1] : m \in 1..Len(plugins[n][f])} :
           n \in Suppliers(f)}

\* what descriptor n gives for key k of its mapping f
ValueAt(n, f, k) ==
    plugins[n][f][CHOOSE m \in 1..Len(plugins[n][f]) :
                     plugins[n][f][m][1] = k][2]

\* no auth, slug, action name or route key comes from two descriptors
NoOverlap ==
    /\ Cardinality(Suppliers("auth")) <= 1
    /\ \A f \in MapFields : \A k \in KeysOf(f) :
          Cardinality(Contributors(f, k)) = 1

\* the sequences f of the first n descriptors, one after the other
RECURSIVE ConcatUpTo(_, _)
ConcatUpTo(f, n) ==
    IF n = 0 THEN <<>>
    ELSE ConcatUpTo(f, n - 1) \o
         (IF Supplies(n, f) THEN plugins[n][f] ELSE <<>>)

\* the callbacks h of the first n descriptors that have one
RECURSIVE CallbacksUpTo(_, _)
CallbacksUpTo(h, n) ==
    IF n = 0 THEN <<>>
    ELSE CallbacksUpTo(h, n - 1) \o
         (IF Supplies(n, h) THEN <<plugins[n][h]>> ELSE <<>>)

\* s with every element kept at its first occurrence only
RECURSIVE FirstOccurrences(_)
FirstOccurrences(s) ==
    IF s = <<>> THEN <<>>
    ELSE LET front == FirstOccurrences(SubSeq(s, 1, Len(s) - 1))
             last  == s[Len(s)]
         IN  IF \E n \in 1..Len(front) : front[n] = last
             THEN front ELSE Append(front, last)

\* the first descriptor that collides with the descriptors before it
Collides(n) ==
    \E m \in 1..(n - 1) :
        \/ Supplies(m, "auth") /\ Supplies(n, "auth")
        \/ \E f \in MapFields : \E k \in KeysOf(f) :
              Contributes(m, f, k) /\ Contributes(n, f, k)

\* the second descriptor in input order that supplies auth
SecondAuth ==
    CHOOSE n \in Suppliers("auth") :
        Cardinality({m \in Suppliers("auth") : m < n}) = 1

----------------------------------------------------------------------------
(* Properties.                                                             *)

\* C1: whenever no two descriptors both supply auth and no permission slug,
\* action name or route key occurs in more than one descriptor, the call
\* succeeds and the resolved integrations and middleware are the
\* concatenations of the descriptors' sequences in input order.
C1_ConcatOnNoOverlap ==
    (Done /\ NoOverlap) =>
        /\ Succeeded
        /\ outcome.value.integrations = ConcatUpTo("integrations", Len(plugins))
        /\ outcome.value.middleware = ConcatUpTo("middleware", Len(plugins))

OnlyOverlap(f, k) ==
    /\ Len(plugins) = 2
    /\ plugins[1].name # plugins[2].name
    /\ Contributes(1, f, k) /\ Contributes(2, f, k)
    /\ ~(Supplies(1, "auth") /\ Supplies(2, "auth"))
    /\ \A g \in MapFields : \A j \in KeysOf(g) :
          (Contributes(1, g, j) /\ Contributes(2, g, j)) => (g = f /\ j = k)

\* C3: two descriptors A then B with different names whose only overlap is
\* one key k of the same exclusive mapping make the call fail with a
\* conflict of that mapping's kind, with key k, ownerA the name of A and
\* ownerB the name of B.
C3_SingleOverlapConflict ==
    Done => \A f \in MapFields : \A k \in KeysOf(f) :
        OnlyOverlap(f, k) =>
            /\ Conflicted
            /\ outcome.error.kind = KindOf(f)
            /\ outcome.error.key = k
            /\ outcome.error.ownerA = plugins[1].name
            /\ outcome.error.ownerB = plugins[2].name

\* C4 as claimed: whenever two descriptors both supply auth, the call fails
\* with kind auth and ownerB the name of the second descriptor in input
\* order that supplied auth.
C4_AuthConflictAlways ==
    (Done /\ Cardinality(Suppliers("auth")) >= 2) =>
        /\ Conflicted
        /\ outcome.error.kind = "auth"
        /\ outcome.error.ownerB = plugins[SecondAuth].name

\* C4 as amended: whenever two descriptors both supply auth, the call fails,
\* and it fails no later than at the second descriptor that supplied auth;
\* when it fails there (no error was raised before), the error is the
\* conflict of kind auth with key auth and ownerB the name of that
\* descriptor.  Every conflict of kind auth is raised there.
C4_AuthConflict ==
    /\ (Done /\ Cardinality(Suppliers("auth")) >= 2) =>
          /\ Failed
          /\ pos <= SecondAuth
          /\ pos = SecondAuth =>
                /\ Conflicted
                /\ outcome.error.kind = "auth"
                /\ outcome.error.key = "auth"
                /\ outcome.error.ownerB = plugins[SecondAuth].name
    /\ (Conflicted /\ outcome.error.kind = "auth") =>
          /\ Cardinality(Suppliers("auth")) >= 2
          /\ pos = SecondAuth
          /\ outcome.error.ownerB = plugins[pos].name

\* C4 witness: a conflict of kind auth raised at the second of the
\* descriptors supplying auth, which is not named like the first owner and
\* is not the last supplier.
C4_Witness ==
    /\ Conflicted
    /\ outcome.error.kind = "auth"
    /\ pos = SecondAuth
    /\ outcome.error.ownerA # outcome.error.ownerB
    /\ Cardinality(Suppliers("auth")) = 3

\* C4 witness of the amendment: two descriptors supply auth and the call
\* fails before the second of them, on a permission slug that only
\* descriptors' own entries define.
C4_EarlierConflictWitness ==
    /\ Conflicted
    /\ Cardinality(Suppliers("auth")) >= 2
    /\ pos < SecondAuth
    /\ outcome.error.kind = "permission"
    /\ outcome.error.key \notin ProtoKeys

\* the role names the descriptors give
RoleNames == KeysOf("roles")

\* the slug list descriptor n gives for a role, empty when it gives none
RoleList(n, role) ==
    IF Contributes(n, "roles", role) THEN ValueAt(n, "roles", role) ELSE <<>>

\* the slug lists of the first n descriptors for a role, one after the other
RECURSIVE RoleListsUpTo(_, _)
RoleListsUpTo(role, n) ==
    IF n = 0 THEN <<>> ELSE RoleListsUpTo(role, n - 1) \o RoleList(n, role)

\* C5: on success the keys of the resolved roles are exactly the role names
\* given by the descriptors, and each role's sequence is the concatenation
\* of the descriptors' slug lists for it with every slug kept at its first
\* occurrence only.
C5_RolesUnion ==
    Succeeded =>
        /\ DOMAIN outcome.value.roles = RoleNames
        /\ \A role \in RoleNames :
              outcome.value.roles[role] =
                  FirstOccurrences(RoleListsUpTo(role, Len(plugins)))

\* C6: on success each of the resolved permissions, actions and routes has
\* as keys the union of the descriptors' keys and maps every key to the
\* value given by the descriptor that contributed it.
C6_MappingsUnion ==
    Succeeded =>
        \A f \in MapFields :
            /\ DOMAIN outcome.value[f] = KeysOf(f)
            /\ \A n \in Positions : \A k \in KeysOf(f) :
                  Contributes(n, f, k) =>
                      outcome.value[f][k] = ValueAt(n, f, k)

\* C6 witness: a successful call in which two descriptors give routes under
\* different keys and with different values.
C6_Witness ==
    /\ Succeeded
    /\ \E a, b \in Positions : \E j, k \in KeysOf("routes") :
          /\ a # b /\ j # k
          /\ Contributes(a, "routes", j)
          /\ Contributes(b, "routes", k)
          /\ ValueAt(a, "routes", j) # ValueAt(b, "routes", k)

\* C7: on success each of the four hook lists holds the callbacks of the
\* descriptors that supplied one, in descriptor order, one per supplier.
C7_HooksInOrder ==
    Succeeded =>
        \A h \in HookNames :
            outcome.value.hooks[h] = CallbacksUpTo(h, Len(plugins))

\* C7 witness: three descriptors, the first two supply different onInit
\* callbacks and the third none.
C7_Witness ==
    /\ Succeeded
    /\ Len(plugins) = 3
    /\ Supplies(1, "onInit") /\ Supplies(2, "onInit") /\ ~Supplies(3, "onInit")
    /\ plugins[1].onInit # plugins[2].onInit

\* C8: a conflict is raised at the earliest descriptor that collides with
\* the contributions of the descriptors before it, and ownerB is its name.
C8_FailFast ==
    Conflicted =>
        /\ Collides(pos)
        /\ \A n \in 1..(pos - 1) : ~Collides(n)
        /\ outcome.error.ownerB = plugins[pos].name

\* C9: when the call throws, the caller has the error and nothing else: no
\* configuration, whole or partial, and the outcome never changes again.
C9_NoPartialResult ==
    Failed =>
        /\ DOMAIN outcome = {"type", "error"}
        /\ DOMAIN outcome.error \subseteq
               {"type", "kind", "key", "ownerA", "ownerB", "message"}
        /\ ~ENABLED Next

\* C9 witness: the call throws after contributions of an earlier descriptor
\* and of an earlier field of the conflicting descriptor were merged.
C9_Witness ==
    /\ Failed
    /\ pos >= 2
    /\ resolved.auth # Undefined
    /\ Cardinality(DOMAIN resolved.permissions) >= 1

\* the first descriptor before the current one that has the colliding key
FirstHolder(f, k) ==
    CHOOSE n \in 1..(pos - 1) :
        Contributes(n, f, k) /\ \A m \in 1..(n - 1) : ~Contributes(m, f, k)

\* the first descriptor named like the current one
FirstNamesake == CHOOSE n \in 1..pos :
    plugins[n].name = plugins[pos].name
    /\ \A m \in 1..(n - 1) : plugins[m].name # plugins[pos].name

HasHolder(f, k) == \E n \in 1..(pos - 1) : Contributes(n, f, k)

\* C10 as claimed: in every conflict of kind permission, action or route
\* ownerA is the name of the first descriptor before the current one whose
\* mapping contains the colliding key.
C10_OwnerIsFirstHolder ==
    (Conflicted /\ outcome.error.kind \in MapKinds) =>
        LET f == FieldOf(outcome.error.kind)
            k == outcome.error.key
        IN  HasHolder(f, k) =>
                outcome.error.ownerA = plugins[FirstHolder(f, k)].name

\* C10 as amended: in such a conflict ownerA is the name of the first
\* descriptor before the current one whose mapping contains the colliding
\* key, provided that descriptor stands before the first descriptor named
\* like the current one; otherwise ownerA is "engine config".
C10_OwnerBeforeNamesake ==
    (Conflicted /\ outcome.error.kind \in MapKinds) =>
        LET f == FieldOf(outcome.error.kind)
            k == outcome.error.key
        IN  HasHolder(f, k) =>
                outcome.error.ownerA =
                    IF FirstHolder(f, k) < FirstNamesake
                    THEN plugins[FirstHolder(f, k)].name
                    ELSE "engine config"

\* C10 witness: a conflict whose first holder is the second descriptor and
\* is reported as ownerA.
C10_Witness ==
    /\ Conflicted
    /\ outcome.error.kind \in MapKinds
    /\ HasHolder(FieldOf(outcome.error.kind), outcome.error.key)
    /\ FirstHolder(FieldOf(outcome.error.kind), outcome.error.key) = 2
    /\ FirstNamesake = pos
    /\ outcome.error.ownerA = plugins[2].name

\* the scan of findOwner comes upon a descriptor with the key: one before the
\* first descriptor named like the current one whose mapping f has k
TracerFinds(f, k) ==
    \E n \in 1..(FirstNamesake - 1) :
        Supplies(n, f) /\ KeyIn(plugins[n][f], k)

C12_OwnerIsEarlierDescriptor ==
    Conflicted =>
        /\ outcome.error.ownerA # "engine config"
        /\ \E n \in 1..(pos - 1) : plugins[n].name = outcome.error.ownerA

\* C13: no step of the call changes the input: the descriptor sequence and
\* every field of every descriptor stay as the caller passed them, whether
\* the call returns or throws.
C13_InputUnchanged == [][plugins' = plugins]_vars

\* C13 witness: the call is over after two descriptors' integrations were
\* merged into a resolved list that is longer than either's own.
C13_Witness ==
    /\ Done
    /\ \E a, b \in Suppliers("integrations") :
          /\ a < b
          /\ plugins[a].integrations # <<>>
          /\ plugins[b].integrations # <<>>
          /\ Len(resolved.integrations) >
                 Len(plugins[a].integrations)
          /\ Len(resolved.integrations) >
                 Len(plugins[b].integrations)

\* C14: a second call on the same descriptor sequence starts from an empty
\* accumulator and no remembered auth owner, and ends with the outcome of
\* the first: an equal configuration or an equal error.
C14_SameOutcomeTwice ==
    previous # NoCall =>
        /\ pos = 0 => (resolved = EmptyResolved /\ authSource = Undefined)
        /\ Done => outcome = previous

\* C14 witness: both calls on a sequence of two or more descriptors are
\* over and returned a configuration with an auth and a permission.
C14_Witness ==
    /\ previous # NoCall
    /\ Succeeded
    /\ Len(plugins) >= 2
    /\ outcome.value.auth # Undefined
    /\ DOMAIN outcome.value.permissions # {}

\* the input with the descriptors at positions a and b exchanged
Swapped(a, b) == [plugins EXCEPT ![a] = plugins[b], ![b] = plugins[a]]

\* the elements of a sequence
Elements(s) == {s[n] : n \in 1..Len(s)}

\* t has the entries of s, each as often as s, in some order
Reordered(s, t) ==
    /\ Len(s) = Len(t)
    /\ \A x \in Elements(s) \cup Elements(t) :
          Cardinality({n \in 1..Len(s) : s[n] = x}) =
              Cardinality({n \in 1..Len(t) : t[n] = x})

\* C15 as claimed: when the call succeeds, the call on the input with two
\* descriptors exchanged succeeds with the same permissions, actions,
\* routes, roles and auth.
C15_SwapKeepsMappings ==
    Succeeded =>
        \A a, b \in Positions : a < b =>
            LET r == resolvePlugins(Swapped(a, b)).outcome
            IN  /\ r.type = "returned"
                /\ \A f \in MapFields \cup {"roles", "auth"} :
                      r.value[f] = outcome.value[f]

\* C15 as amended: when the call succeeds, the call on the input with two
\* descriptors exchanged succeeds with the same permissions, actions,
\* routes and auth, with the same role names and for each role the same
\* slugs, in an order that may differ, and with integrations, middleware
\* and hook lists that have the same entries in an order that may differ.
C15_SwapReordersLists ==
    Succeeded =>
        \A a, b \in Positions : a < b =>
            LET r == resolvePlugins(Swapped(a, b)).outcome
            IN  /\ r.type = "returned"
                /\ \A f \in MapFields \cup {"auth"} :
                      r.value[f] = outcome.value[f]
                /\ DOMAIN r.value.roles = DOMAIN outcome.value.roles
                /\ \A role \in DOMAIN outcome.value.roles :
                      Reordered(outcome.value.roles[role], r.value.roles[role])
                /\ \A f \in SeqFields :
                      Reordered(outcome.value[f], r.value[f])
                /\ \A h \in HookNames :
                      Reordered(outcome.value.hooks[h], r.value.hooks[h])

\* C15 witness: a successful call whose first two descriptors both give
\* slugs to one role, and the exchange of the two changes the order of the
\* role's resolved slugs.
C15_Witness ==
    /\ Succeeded
    /\ Len(plugins) >= 2
    /\ \E role \in DOMAIN outcome.value.roles :
          /\ Contributes(1, "roles", role)
          /\ Contributes(2, "roles", role)
          /\ resolvePlugins(Swapped(1, 2)).outcome.value.roles[role] #
                 outcome.value.roles[role]

\* the input with the name of descriptor n replaced by nm[n]
Renamed(nm) == [n \in Positions |-> [plugins[n] EXCEPT !.name = nm[n]]]

RunAgrees ==
    Done => /\ resolvePlugins(plugins).outcome = outcome
            /\ resolvePlugins(plugins).pos = pos

\* the section that merges field f of a descriptor
SectionOf(f) == IF f \in HookNames THEN "hooks" ELSE f

\* the sections that have something to merge: those of the fields some
\* descriptor of the input has (the section of a field no descriptor has
\* leaves the accumulator as it is, wherever it stands in the order)
InputSections ==
    {SectionOf(f) : f \in UNION {DOMAIN plugins[n] \ {"name"} : n \in Positions}}

\* the orders in which these sections can be taken
SectionOrders ==
    {o \in [1..Cardinality(InputSections) -> InputSections] :
        \A a, b \in DOMAIN o : a # b => o[a] # o[b]}

\* C17 as claimed: taking the sections of the loop body in any other order
\* gives the outcome of the call: the same configuration or the same error.
C17_AnyOrderSameOutcome ==
    Done =>
        \A o \in SectionOrders :
            resolvePluginsInOrder(plugins, o).outcome = outcome

\* C17 as amended: taking the sections in any other order, the call ends at
\* the same descriptor, returns the same configuration when the call
\* returns, and throws when the call throws; the error thrown may be
\* another one.
C17_AnyOrderSameResult ==
    Done =>
        \A o \in SectionOrders :
            LET r == resolvePluginsInOrder(plugins, o)
            IN  /\ r.pos = pos
                /\ r.outcome.type = outcome.type
                /\ Succeeded => r.outcome.value = outcome.value

\* C17 witness: the call throws the conflict of kind auth at a descriptor
\* that also collides on a permission slug of the descriptors' own, and
\* with the permissions taken first the conflict is of kind permission.
C17_Witness ==
    /\ Conflicted
    /\ outcome.error.kind = "auth"
    /\ InputSections = {"auth", "permissions"}
    /\ LET r == resolvePluginsInOrder(plugins, <<"permissions", "auth">>)
       IN  /\ r.pos = pos
           /\ r.outcome.type = "thrown"
           /\ r.outcome.error.type = "PluginConflictError"
           /\ r.outcome.error.kind = "permission"
           /\ r.outcome.error.key \notin ProtoKeys

\* the text of a conflict as the specification gives it
ConflictText(kind, key, ownerA, ownerB) ==
    "Plugin conflict: " \o kind \o " \"" \o key \o "\" is defined by both \""
        \o ownerA \o "\" and \"" \o ownerB
        \o "\". Each " \o kind \o " must be provided by exactly one plugin."

\* C18: every conflict has kind auth, permission, action or route, has the
\* key auth when its kind is auth, and carries the text of the format made
\* of its kind, its key, its first owner and the name of the descriptor at
\* which it was raised.
C18_ConflictText ==
    Conflicted =>
        /\ outcome.error.kind \in {"auth"} \cup MapKinds
        /\ outcome.error.kind = "auth" => outcome.error.key = "auth"
        /\ outcome.error.ownerB = plugins[pos].name
        /\ outcome.error.message =
               ConflictText(outcome.error.kind, outcome.error.key,
                            outcome.error.ownerA, plugins[pos].name)

\* C18 witness: a conflict of kind route between descriptors A and B with
\* its text in full.
C18_Witness ==
    /\ Conflicted
    /\ outcome.error.message =
           "Plugin conflict: route \"k1\" is defined by both \"A\" and \"B\". Each route must be provided by exactly one plugin."

\* C19: the call ends with a configuration or with a conflict of kind auth,
\* permission, action or route, and with no other error.
C19_OnlyConflicts ==
    Done =>
        \/ Succeeded
        \/ /\ Conflicted
           /\ outcome.error.kind \in {"auth"} \cup MapKinds

\* C20: a returned configuration has every field, the hooks all four lists;
\* a field no descriptor has is empty, and auth is absent when no descriptor
\* has one; the call on the empty sequence returns the configuration with
\* everything empty and no auth.
C20_AllFieldsPresent ==
    Succeeded =>
        /\ DOMAIN outcome.value =
               {"integrations", "auth", "permissions", "roles", "actions",
                "middleware", "routes", "hooks"}
        /\ DOMAIN outcome.value.hooks = HookNames
        /\ \A f \in SeqFields : Suppliers(f) = {} => outcome.value[f] = <<>>
        /\ \A f \in MapFields \cup {"roles"} :
              Suppliers(f) = {} => outcome.value[f] = EmptyObject
        /\ \A h \in HookNames :
              Suppliers(h) = {} => outcome.value.hooks[h] = <<>>
        /\ Suppliers("auth") = {} => outcome.value.auth = Undefined
        /\ plugins = <<>> =>
              outcome.value =
                  [integrations |-> <<>>, auth |-> Undefined,
                   permissions |-> EmptyObject, roles |-> EmptyObject,
                   actions |-> EmptyObject, middleware |-> <<>>,
                   routes |-> EmptyObject,
                   hooks |-> [h \in HookNames |-> <<>>]]

\* C20 witness: a configuration returned for two descriptors that give
\* routes and nothing else.
C20_Witness ==
    /\ Succeeded
    /\ Len(plugins) = 2
    /\ InputSections = {"routes"}
    /\ Suppliers("routes") = {1, 2}
    /\ outcome.value.permissions = EmptyObject
    /\ outcome.value.auth = Undefined

\* C21: a returned configuration has no auth exactly when no descriptor has
\* one; otherwise exactly one descriptor has auth and the resolved auth is
\* that descriptor's.
C21_AuthOfSingleSupplier ==
    Succeeded =>
        /\ outcome.value.auth = Undefined <=> Suppliers("auth") = {}
        /\ Suppliers("auth") # {} =>
              /\ Cardinality(Suppliers("auth")) = 1
              /\ \A n \in Suppliers("auth") :
                    outcome.value.auth = Some(plugins[n].auth)

\* C21 witness: a configuration returned for three descriptors of which the
\* second alone has auth, the second of the two auth values of the inputs.
C21_Witness ==
    /\ Succeeded
    /\ Len(plugins) = 3
    /\ Suppliers("auth") = {2}
    /\ outcome.value.auth = Some("au2")

\* C22: with the iterations of two invocations interleaved in any way, each
\* invocation ends with the outcome of a call on its input alone.
C22_InterleavedIndependent ==
    other # NoInvocation =>
        /\ Done => outcome = resolvePlugins(plugins).outcome
        /\ other.outcome # Pending =>
              other.outcome = resolvePlugins(other.plugins).outcome

\* C22 witness: both invocations are in progress after one iteration each;
\* the first has merged an auth, the second has none yet and has one to
\* merge.
C22_Witness ==
    /\ other # NoInvocation
    /\ outcome = Pending /\ other.outcome = Pending
    /\ pos = 1 /\ Len(plugins) >= 2
    /\ other.pos = 1 /\ Len(other.plugins) >= 2
    /\ resolved.auth # Undefined
    /\ other.resolved.auth = Undefined
    /\ Has(other.plugins[2], "auth")

\* C23: definePlugin returns the descriptor it was given, with every field
\* as it was and no other, and never throws.
C23_DefinePluginIdentity ==
    Done =>
        /\ Succeeded
        /\ outcome.value = plugins[pos]
        /\ DOMAIN outcome.value = DOMAIN plugins[pos]

\* C23 witness: definePlugin has returned a descriptor that has roles and
\* no permissions.
C23_Witness ==
    /\ Succeeded
    /\ pos >= 1
    /\ Has(outcome.value, "roles")
    /\ ~Has(outcome.value, "permissions")

\* C24: every call ends; the loop takes the descriptors one by one in input
\* order, none twice and none beyond the last; and when a conflict of kind
\* permission, action or route was raised, the scan of findOwner looked at
\* no more descriptors than the input has.
C24_Terminates ==
    /\ <>Done
    /\ [][pos' # pos => (pos' = pos + 1 /\ pos' <= Len(plugins))]_vars
    /\ []((Conflicted /\ outcome.error.kind \in MapKinds) =>
             FindOwnerVisits(plugins, 1, FieldOf(outcome.error.kind),
                             outcome.error.key, plugins[pos].name)
                 <= Len(plugins))

\* C24 witness: a call on three descriptors has ended at the third with a
\* conflict for which findOwner looked at two descriptors.
C24_Witness ==
    /\ Conflicted
    /\ pos = 3
    /\ outcome.error.kind \in MapKinds
    /\ FindOwnerVisits(plugins, 1, FieldOf(outcome.error.kind),
                       outcome.error.key, plugins[pos].name) = 2

\* the first descriptor in input order that has auth
FirstAuth == CHOOSE n \in Suppliers("auth") : \A m \in Suppliers("auth") : n <= m

\* C25: a conflict of kind auth has the key auth and as ownerA the name of
\* the first descriptor in input order that has auth, whatever names the
\* descriptors share.
C25_AuthOwnerRemembered ==
    (Conflicted /\ outcome.error.kind = "auth") =>
        /\ outcome.error.key = "auth"
        /\ Suppliers("auth") # {}
        /\ FirstAuth < pos
        /\ outcome.error.ownerA = plugins[FirstAuth].name

\* C25 witness: a conflict of kind auth at the third descriptor, which is
\* named like the first, the owner of auth; the second has another name.
C25_Witness ==
    /\ Conflicted
    /\ outcome.error.kind = "auth"
    /\ pos = 3
    /\ FirstAuth = 1
    /\ plugins[3].name = plugins[1].name
    /\ plugins[2].name # plugins[1].name
    /\ outcome.error.ownerA = plugins[1].name

\* the exclusive contributions in the order the loop body checks them
CheckOrder == <<"auth", "permissions", "actions", "routes">>

\* descriptor n repeats, in contribution f, something an earlier one gave
CollidesOn(n, f) ==
    IF f = "auth"
    THEN Supplies(n, "auth") /\ \E m \in 1..(n - 1) : Supplies(m, "auth")
    ELSE \E k \in KeysOf(f) :
            Contributes(n, f, k) /\ \E m \in 1..(n - 1) : Contributes(m, f, k)

\* everything descriptor n repeats, as pairs of contribution and key
CollisionsOf(n) ==
    {<<"auth", "auth">> : x \in {y \in {1} : CollidesOn(n, "auth")}} \cup
    {<<f, k>> \in MapFields \X UNION {KeysOf(g) : g \in MapFields} :
        Contributes(n, f, k) /\ \E m \in 1..(n - 1) : Contributes(m, f, k)}

FirstColliding ==
    CHOOSE n \in Positions : Collides(n) /\ \A m \in 1..(n - 1) : ~Collides(m)

\* the first contribution in check order that descriptor n repeats
FirstCollidingField(n) ==
    CheckOrder[CHOOSE i \in 1..Len(CheckOrder) :
                  /\ CollidesOn(n, CheckOrder[i])
                  /\ \A j \in 1..(i - 1) : ~CollidesOn(n, CheckOrder[j])]

\* the first key, in the order of descriptor n's own mapping f, that an
\* earlier descriptor gave
FirstCollidingKey(n, f) ==
    IF f = "auth" THEN "auth"
    ELSE LET held(i) == \E m \in 1..(n - 1) :
                            Contributes(m, f, plugins[n][f][i][1])
         IN  plugins[n][f][CHOOSE i \in 1..Len(plugins[n][f]) :
                              held(i) /\ \A j \in 1..(i - 1) : ~held(j)][1]

KindOfContribution(f) == IF f = "auth" THEN "auth" ELSE KindOf(f)

\* C26: when the first descriptor that repeats something repeats more than
\* one contribution, the call fails with the conflict that the check order
\* picks: auth before permissions before actions before routes, and in one
\* mapping the first repeated key in that mapping's own key order.
C26_CheckOrderDecides ==
    (/\ Done
     /\ \E n \in Positions : Collides(n)
     /\ Cardinality(CollisionsOf(FirstColliding)) > 1) =>
        /\ Conflicted
        /\ outcome.error.kind =
               KindOfContribution(FirstCollidingField(FirstColliding))
        /\ outcome.error.key =
               FirstCollidingKey(FirstColliding,
                                 FirstCollidingField(FirstColliding))

\* the input with every contribution but f taken out of each descriptor
Projection(f) ==
    [n \in Positions |->
        [g \in DOMAIN plugins[n] \cap {"name", f} |-> plugins[n][g]]]

\* C27: the exclusive namespaces are independent.  The call succeeds exactly
\* when it succeeds on each namespace taken alone, a conflict is the one the
\* call on its own namespace alone reports, and so a string used as slug,
\* action name and route key by three descriptors, the literal auth beside
\* an auth provider included, is no conflict.
C27_NamespacesIndependent ==
    Done =>
        /\ Succeeded <=>
               \A f \in {"auth"} \cup MapFields :
                  resolvePlugins(Projection(f)).outcome.type = "returned"
        /\ Conflicted =>
               \E f \in {"auth"} \cup MapFields :
                  /\ KindOfContribution(f) = outcome.error.kind
                  /\ resolvePlugins(Projection(f)).outcome = outcome
        /\ (/\ Cardinality(Suppliers("auth")) <= 1
            /\ \A f \in MapFields : KeysOf(f) \subseteq {"auth"}
            /\ \A f \in MapFields : Cardinality(Suppliers(f)) <= 1)
               => Succeeded

\* C27 witness: the call returned a configuration for three descriptors
\* that use the string auth as permission slug, action name and route key,
\* one of them with an auth provider.
C27_Witness ==
    /\ Succeeded
    /\ Len(plugins) = 3
    /\ Suppliers("auth") # {}
    /\ \E a, b, c \in Positions :
          /\ a # b /\ b # c /\ a # c
          /\ Contributes(a, "permissions", "auth")
          /\ Contributes(b, "actions", "auth")
          /\ Contributes(c, "routes", "auth")
    /\ DOMAIN outcome.value.permissions = {"auth"}
    /\ DOMAIN outcome.value.actions = {"auth"}
    /\ DOMAIN outcome.value.routes = {"auth"}

\* C28: roles are no source of failure and are not checked against the
\* permissions: a call on descriptors that give roles, beside permissions
\* that no two of them share, returns a configuration, and every slug a
\* descriptor lists for a role, defined as a permission or not, is in that
\* role's resolved sequence.
C28_RolesAlwaysMerge ==
    (/\ Done
     /\ InputSections \subseteq {"roles", "permissions"}
     /\ Suppliers("roles") # {}
     /\ NoOverlap) =>
        /\ Succeeded
        /\ \A n \in Suppliers("roles") : \A role \in RoleNames :
              Contributes(n, "roles", role) =>
                 /\ role \in DOMAIN outcome.value.roles
                 /\ \A i \in 1..Len(RoleList(n, role)) :
                       \E j \in 1..Len(outcome.value.roles[role]) :
                          outcome.value.roles[role][j] = RoleList(n, role)[i]

\* the keys the first n descriptors give for mapping f
KeysUpTo(f, n) ==
    UNION {{plugins[m][f][i][1] : i \in 1..Len(plugins[m][f])} :
           m \in {a \in 1..n : Supplies(a, f)}}

\* C29: as long as nothing was raised, after the first pos descriptors the
\* accumulator's permissions, actions and routes have as keys the union of
\* these descriptors' keys, no two of these descriptors share a key of one
\* mapping, and authSource is set exactly when the accumulator has auth, to
\* the name of the one descriptor among them that has auth.
C29_LoopInvariant ==
    ~Failed =>
        /\ \A f \in MapFields : DOMAIN resolved[f] = KeysUpTo(f, pos)
        /\ \A f \in MapFields : \A a, b \in 1..pos : \A k \in KeysOf(f) :
              (Contributes(a, f, k) /\ Contributes(b, f, k)) => a = b
        /\ authSource # Undefined <=> resolved.auth # Undefined
        /\ resolved.auth # Undefined <=>
               \E n \in 1..pos : Supplies(n, "auth")
        /\ \A n \in 1..pos : Supplies(n, "auth") =>
               /\ authSource = Some(plugins[n].name)
               /\ resolved.auth = Some(plugins[n].auth)

\* C29 witness: the loop stands after the second of three descriptors, the
\* second has auth, and both gave a permission to the accumulator.
C29_Witness ==
    /\ outcome = Pending
    /\ Len(plugins) = 3
    /\ pos = 2
    /\ Supplies(2, "auth")
    /\ ~Supplies(1, "auth")
    /\ authSource = Some(plugins[2].name)
    /\ Cardinality(DOMAIN resolved.permissions) = 2
    /\ Supplies(1, "permissions")
    /\ Supplies(2, "permissions")

====
